---- MODULE Spec2Model ----
(***************************************************************************)
(* Model of linkaddrs (src/src/lib.rs): one public call resolving the IP   *)
(* networks of the host's links through an rtnetlink handle.  The handle   *)
(* is the environment: it delivers the link stream and, per link, the      *)
(* address-record stream, one item per step (a record, an error, or the    *)
(* end of the stream).  The pipeline is modelled at its await points.      *)
(***************************************************************************)
EXTENDS Integers, Sequences, FiniteSets

\* ---------------------------------------------------------------- bounds
MaxLinks == 2
MaxRecs == 2

\* ------------------------------------------------------- program constants
AF_INET == 2
AF_INET6 == 10

\* -------------------------------------------------------------- data types
None == [some |-> FALSE]
Some(x) == [some |-> TRUE, v |-> x]

Ok(v) == [kind |-> "ok", val |-> v]
Err(e) == [kind |-> "err", err |-> e]
Panic == [kind |-> "panic"]
Pending == [kind |-> "pending"]

\* enum Error { RtNetlink(rtnetlink::Error), IoError(std::io::Error) }
RtNetlink(e) == [type |-> "RtNetlink", e |-> e]
IoError(e) == [type |-> "IoError", e |-> e]

\* impl From<rtnetlink::Error> for Error, used by `?` on the link stream
FromRtNetlink_io(e) == IoError(e)
FromRtNetlink(e) == RtNetlink(e)

\* impl From<std::io::Error> for Error, used by `?` on Runtime::new / new_connection
FromIo(e) == IoError(e)

\* rtnetlink errors and io errors the environment can produce
NetlinkErrors == {"ENODEV", "EPERM"}
IoErrors == {"EMFILE"}

\* ------------------------------------------------------------ host inputs
\* the links of the host, in kernel enumeration order; index = position
AllLinks == <<"lo", "eth0", "wlan0">>
Hosts == {SubSeq(AllLinks, 1, n) : n \in 0..MaxLinks}
LinkArgs == {"lo", "eth0", "nonexistent0"}
Apis == {"addresses", "ipv4_addresses", "ipv6_addresses", "all_addresses", "all_ipv4_addresses", "all_ipv6_addresses"}
NamedApis == {"addresses", "ipv4_addresses", "ipv6_addresses"}

Nla(k, b) == [nla |-> k, bytes |-> b]
AddrMsg(f, p, n) == [family |-> f, prefix_len |-> p, nlas |-> n]

Loopback4 == <<127, 0, 0, 1>>
Private4 == <<10, 0, 0, 2>>
Loopback6 == <<0, 0, 0, 0, 0, 0, 0, 0, 0, 0, 0, 0, 0, 0, 0, 1>>
Mac == <<2, 0, 0, 0, 0, 1>>

\* records after which the call goes on
RecV4a == AddrMsg(AF_INET, 8, <<Nla("Address", Loopback4), Nla("Label", <<108, 111>>)>>)
RecV4b == AddrMsg(AF_INET, 24, <<Nla("Address", Private4)>>)
RecV6a == AddrMsg(AF_INET6, 128, <<Nla("Address", Loopback6)>>)
\* a family the decoder does not know (17, a packet-socket address)
RecOther == AddrMsg(17, 0, <<Nla("Address", Mac)>>)
RecLabelFirst == AddrMsg(AF_INET, 8, <<Nla("Label", <<108, 111>>), Nla("Address", Loopback4)>>)
RecNoNlas == AddrMsg(AF_INET, 8, <<>>)
\* records with a payload length or prefix length that does not fit the family
RecV4Short == AddrMsg(AF_INET, 8, <<Nla("Address", <<1, 2, 3>>)>>)
RecV4Long == AddrMsg(AF_INET, 8, <<Nla("Address", Loopback6)>>)
RecV6Short == AddrMsg(AF_INET6, 64, <<Nla("Address", Loopback4)>>)
RecV6Odd == AddrMsg(AF_INET6, 64, <<Nla("Address", Mac)>>)
RecV4BadPrefix == AddrMsg(AF_INET, 33, <<Nla("Address", Private4)>>)
RecV6BadPrefix == AddrMsg(AF_INET6, 129, <<Nla("Address", Loopback6)>>)

Records == {RecV4a, RecV4b, RecV6a, RecOther, RecLabelFirst, RecNoNlas, RecV4Short, RecV4Long, RecV6Short, RecV6Odd, RecV4BadPrefix, RecV6BadPrefix}

\* stream items
Item(r) == [t |-> "item", v |-> r]
StreamErr(e) == [t |-> "err", e |-> e]
End == [t |-> "end"]

\* --------------------------------------------------------- address decoder
\* Vec<u8> -> [u8; n] via try_into(): Ok only when the length is exactly n
TryInto(bytes, n) == IF Len(bytes) = n THEN Ok([i \in 1..n |-> bytes[i]]) ELSE Err("TryFromSliceError")

\* IpNet::new(ip, prefix_len): the address is stored as given, the prefix is range-checked
IpNetNew_maxprefix(ip, prefix_len) == IF prefix_len > (IF ip.fam = "V4" THEN 32 ELSE 128) THEN Err("PrefixLenError") ELSE Ok([fam |-> ip.fam, net |-> [addr |-> ip.octets, prefix_len |-> IF ip.fam = "V4" THEN 32 ELSE 128]])
IpNetNew(ip, prefix_len) == IF prefix_len > (IF ip.fam = "V4" THEN 32 ELSE 128) THEN Err("PrefixLenError") ELSE Ok([fam |-> ip.fam, net |-> [addr |-> ip.octets, prefix_len |-> prefix_len]])

\* IpAddr::from(Ipv4Addr::from(octets)) / IpAddr::from(Ipv6Addr::from(octets))
IpAddrFrom(fam, octets) == [fam |-> fam, octets |-> octets]

\* v.nlas.first() matched against Some(Address(bytes))
FirstAddress_any(nlas) == IF \E i \in 1..Len(nlas) : nlas[i].nla = "Address" THEN Some(nlas[CHOOSE i \in 1..Len(nlas) : nlas[i].nla = "Address" /\ \A j \in 1..(i - 1) : nlas[j].nla # "Address"].bytes) ELSE None
FirstAddress(nlas) == IF Len(nlas) > 0 /\ nlas[1].nla = "Address" THEN Some(nlas[1].bytes) ELSE None

\* one arm of the match: try_into().unwrap(), then IpNet::new(..).unwrap()
DecodeArm(fam, n, bytes, prefix_len) == IF TryInto(bytes, n).kind # "ok" THEN Panic ELSE IF IpNetNew(IpAddrFrom(fam, TryInto(bytes, n).val), prefix_len).kind # "ok" THEN Panic ELSE Ok(Some(IpNetNew(IpAddrFrom(fam, TryInto(bytes, n).val), prefix_len).val))

\* the map_ok closure: Ok(Some(net)), Ok(None), or a panic
Decode(v) == IF FirstAddress(v.nlas).some THEN (IF v.family = AF_INET THEN DecodeArm("V4", 4, FirstAddress(v.nlas).v, v.prefix_len) ELSE IF v.family = AF_INET6 THEN DecodeArm("V6", 16, FirstAddress(v.nlas).v, v.prefix_len) ELSE Ok(None)) ELSE Ok(None)

\* ------------------------------------------------------------- projections
RECURSIVE FilterMapV4(_)
FilterMapV4(s) == IF s = <<>> THEN <<>> ELSE (IF Head(s).fam = "V4" THEN <<Head(s).net>> ELSE <<>>) \o FilterMapV4(Tail(s))

RECURSIVE FilterMapV6(_)
FilterMapV6(s) == IF s = <<>> THEN <<>> ELSE (IF Head(s).fam = "V6" THEN <<Head(s).net>> ELSE <<>>) \o FilterMapV6(Tail(s))

RECURSIVE FilterMapV4_all(_)
FilterMapV4_all(s) == IF s = <<>> THEN <<>> ELSE <<Head(s).net>> \o FilterMapV4_all(Tail(s))

\* the public wrappers, applied to what block_on(internal_addresses(..)) returned;
\* `?` hands an Err back unchanged and a panic unwinds through the wrapper
addresses(r) == r
ipv4_addresses_all(r) == IF r.kind = "ok" THEN Ok(FilterMapV4_all(r.val)) ELSE r
ipv4_addresses(r) == IF r.kind = "ok" THEN Ok(FilterMapV4(r.val)) ELSE r
ipv6_addresses(r) == IF r.kind = "ok" THEN Ok(FilterMapV6(r.val)) ELSE r
all_addresses_notfound(r) == IF r.kind = "ok" /\ r.val = <<>> THEN Err([type |-> "LinkNotFound", name |-> None]) ELSE r
all_addresses(r) == r
all_ipv4_addresses(r) == IF all_addresses(r).kind = "ok" THEN Ok(FilterMapV4(all_addresses(r).val)) ELSE all_addresses(r)
all_ipv6_addresses(r) == IF all_addresses(r).kind = "ok" THEN Ok(FilterMapV6(all_addresses(r).val)) ELSE all_addresses(r)

\* what addresses(link) / all_addresses() hands back for the outcome r of the pipeline
Inner(a, r) == IF a \in NamedApis THEN addresses(r) ELSE all_addresses(r)

\* what the called public function hands back for the outcome r of the pipeline
Return(a, r) == CASE a = "addresses" -> addresses(r) [] a = "ipv4_addresses" -> ipv4_addresses(addresses(r)) [] a = "ipv6_addresses" -> ipv6_addresses(addresses(r)) [] a = "all_addresses" -> all_addresses(r) [] a = "all_ipv4_addresses" -> all_ipv4_addresses(r) [] a = "all_ipv6_addresses" -> all_ipv6_addresses(r)

\* the filter each wrapper hands to internal_addresses
FilterArg(a, l) == IF a \in NamedApis THEN Some(l) ELSE None

\* links.match_name(link): the kernel streams back only the links of that name
MatchName(h, f) == IF f.some THEN SelectSeq([i \in 1..Len(h) |-> [index |-> i, name |-> h[i]]], LAMBDA l : l.name = f.v) ELSE [i \in 1..Len(h) |-> [index |-> i, name |-> h[i]]]

\* link_addrs.append(&mut collected)
VecAppend_front(v, other) == other \o v
VecAppend(v, other) == v \o other

\* ------------------------------------------------------------------- state
VARIABLES api, filter, host, pc, links, addrs, open, collected, link_addrs, num_links, inner, result

vars == <<api, filter, host, pc, links, addrs, open, collected, link_addrs, num_links, inner, result>>

\* number of link records the link stream has delivered so far
Pulled == Cardinality({i \in 1..Len(links) : links[i].t = "item"})

Init ==
    /\ api \in Apis
    /\ \E l \in LinkArgs : filter = FilterArg(api, l)
    /\ host \in Hosts
    /\ pc = "start"
    /\ links = <<>>
    /\ addrs = <<>>
    /\ open = {}
    /\ collected = <<>>
    /\ link_addrs = <<>>
    /\ num_links = 0
    /\ inner = Pending
    /\ result = Pending

\* let rt = Runtime::new()?;
RuntimeNew ==
    /\ pc = "start"
    /\ pc' = "connect"
    /\ UNCHANGED <<api, filter, host, links, addrs, open, collected, link_addrs, num_links, inner, result>>

RuntimeNewFail ==
    /\ pc = "start"
    /\ \E e \in IoErrors : result' = Return(api, Err(FromIo(e))) /\ inner' = Inner(api, Err(FromIo(e)))
    /\ pc' = "done"
    /\ UNCHANGED <<api, filter, host, links, addrs, open, collected, link_addrs, num_links>>

\* new_connection()?, spawn, build and execute the link request
NewConnection ==
    /\ pc = "connect"
    /\ pc' = "links"
    /\ UNCHANGED <<api, filter, host, links, addrs, open, collected, link_addrs, num_links, inner, result>>

NewConnectionFail ==
    /\ pc = "connect"
    /\ \E e \in IoErrors : result' = Return(api, Err(FromIo(e))) /\ inner' = Inner(api, Err(FromIo(e)))
    /\ pc' = "done"
    /\ UNCHANGED <<api, filter, host, links, addrs, open, collected, link_addrs, num_links>>

\* links.try_next().await? yields Some(link): the address request for it is executed
LinkNext ==
    /\ pc = "links"
    /\ Pulled < Len(MatchName(host, filter))
    /\ links' = Append(links, Item(MatchName(host, filter)[Pulled + 1]))
    /\ addrs' = Append(addrs, [index |-> MatchName(host, filter)[Pulled + 1].index, items |-> <<>>])
    /\ open' = open \cup {MatchName(host, filter)[Pulled + 1].index}
    /\ collected' = <<>>
    /\ pc' = "addrs"
    /\ UNCHANGED <<api, filter, host, link_addrs, num_links, inner, result>>

\* links.try_next().await? yields Err(e): `?` returns it
LinkErr ==
    /\ pc = "links"
    /\ \E e \in NetlinkErrors :
        /\ links' = Append(links, StreamErr(e))
        /\ result' = Return(api, Err(FromRtNetlink(e))) /\ inner' = Inner(api, Err(FromRtNetlink(e)))
    /\ pc' = "done"
    /\ UNCHANGED <<api, filter, host, addrs, open, collected, link_addrs, num_links>>

\* links.try_next().await? yields None: the loop ends, Ok(link_addrs)
LinkEnd ==
    /\ pc = "links"
    /\ Pulled = Len(MatchName(host, filter))
    /\ links' = Append(links, End)
    /\ result' = Return(api, Ok(link_addrs)) /\ inner' = Inner(api, Ok(link_addrs))
    /\ pc' = "done"
    /\ UNCHANGED <<api, filter, host, addrs, open, collected, link_addrs, num_links>>

\* the current address stream, the last one requested
CurItems == addrs[Len(addrs)].items
Deliver(x) == [addrs EXCEPT ![Len(addrs)].items = Append(@, x)]

\* the address stream yields Ok(record): map_ok decodes, try_filter/filter_map keep Some
AddrNext_leave ==
    /\ pc = "addrs"
    /\ Len(CurItems) < MaxRecs
    /\ \E r \in Records :
        /\ addrs' = Deliver(Item(r))
        /\ IF Decode(r).kind = "panic"
             THEN /\ result' = Return(api, Panic) /\ inner' = Inner(api, Panic)
                  /\ pc' = "done"
                  /\ UNCHANGED collected
             ELSE /\ collected' = IF Decode(r).val.some THEN Append(collected, Decode(r).val.v) ELSE collected
                  /\ pc' = "links"
                  /\ UNCHANGED <<inner, result>>
    /\ UNCHANGED <<api, filter, host, links, open, link_addrs, num_links>>

AddrNext ==
    /\ pc = "addrs"
    /\ Len(CurItems) < MaxRecs
    /\ \E r \in Records :
        /\ addrs' = Deliver(Item(r))
        /\ IF Decode(r).kind = "panic"
             THEN /\ result' = Return(api, Panic) /\ inner' = Inner(api, Panic)
                  /\ pc' = "done"
                  /\ UNCHANGED collected
             ELSE /\ collected' = IF Decode(r).val.some THEN Append(collected, Decode(r).val.v) ELSE collected
                  /\ pc' = "addrs"
                  /\ UNCHANGED <<inner, result>>
    /\ UNCHANGED <<api, filter, host, links, open, link_addrs, num_links>>

\* the address stream yields Err(e): try_filter passes it on, filter_map unwraps it
AddrErr ==
    /\ pc = "addrs"
    /\ \E e \in NetlinkErrors : addrs' = Deliver(StreamErr(e))
    /\ result' = Return(api, Panic) /\ inner' = Inner(api, Panic)
    /\ pc' = "done"
    /\ UNCHANGED <<api, filter, host, links, open, collected, link_addrs, num_links>>

\* the address stream ends: collect() completes, append, count the link
AddrEnd ==
    /\ pc = "addrs"
    /\ addrs' = Deliver(End)
    /\ link_addrs' = VecAppend(link_addrs, collected)
    /\ collected' = <<>>
    /\ num_links' = num_links + 1
    /\ open' = open \ {addrs[Len(addrs)].index}
    /\ pc' = "links"
    /\ UNCHANGED <<api, filter, host, links, inner, result>>

Next ==
    \/ RuntimeNew
    \/ RuntimeNewFail
    \/ NewConnection
    \/ NewConnectionFail
    \/ LinkNext
    \/ LinkErr
    \/ LinkEnd
    \/ AddrNext
    \/ AddrErr
    \/ AddrEnd

Spec == Init /\ [][Next]_vars

\* ------------------------------------------------------------ properties
\* every address record the address streams have delivered so far
DeliveredRecs == {addrs[i].items[j].v : <<i, j>> \in {<<i, j>> \in (1..Len(addrs)) \X (1..MaxRecs + 2) : j <= Len(addrs[i].items) /\ addrs[i].items[j].t = "item"}}

\* the very last item an address stream delivered, if the pipeline is still on it or ended on it
LastAddrItem == IF Len(addrs) > 0 /\ Len(CurItems) > 0 THEN CurItems[Len(CurItems)] ELSE End

HasFirstAddress(r) == Len(r.nlas) > 0 /\ r.nlas[1].nla = "Address"

\* the nets of the records of one drained stream, in record order
RECURSIVE DecodedOf(_)
DecodedOf(items) == IF items = <<>> THEN <<>> ELSE (IF Head(items).t = "item" /\ Decode(Head(items).v).kind = "ok" /\ Decode(Head(items).v).val.some THEN <<Decode(Head(items).v).val.v>> ELSE <<>>) \o DecodedOf(Tail(items))

\* the nets of the first k streams, stream after stream
RECURSIVE ConcatUpTo(_)
ConcatUpTo(k) == IF k = 0 THEN <<>> ELSE ConcatUpTo(k - 1) \o DecodedOf(addrs[k].items)

\* C1: addresses(link_name) fails with LinkNotFound(link_name) whenever the
\* filtered link enumeration yields zero links; it never returns Ok then.
C1_LinkNotFound == (pc = "done" /\ api = "addresses" /\ links = <<End>>) => result = Err([type |-> "LinkNotFound", name |-> filter.v])

\* C2: when an address stream yields a protocol error, the call returns that
\* error as a typed RtNetlink error result; it does not crash.
C2_AddrErrorReturned == (pc = "done" /\ LastAddrItem.t = "err" /\ links[Len(links)].t = "item") => result = Err(RtNetlink(LastAddrItem.e))

C4_ConcatInOrder == (pc = "done" /\ api \in {"addresses", "all_addresses"} /\ result.kind = "ok") =>
    /\ result.val = ConcatUpTo(Len(addrs))
    /\ \A i \in 1..Len(addrs) : links[i].t = "item" /\ addrs[i].index = links[i].v.index

C4_Witness == pc = "done" /\ api = "all_addresses" /\ result.kind = "ok" /\ Len(addrs) = 2 /\ Len(result.val) = 3 /\ result.val[1] = result.val[3] /\ result.val[1] # result.val[2] /\ Len(DecodedOf(addrs[1].items)) = 2

\* a first-attribute address payload whose length does not fit the declared family
Mismatch(r) == HasFirstAddress(r) /\ (Len(r.nlas[1].bytes) \notin {4, 16} \/ (Len(r.nlas[1].bytes) = 16 /\ r.family = AF_INET) \/ (Len(r.nlas[1].bytes) = 4 /\ r.family = AF_INET6))

\* C5: a record whose payload length is neither 4 nor 16, or does not fit its
\* family, decodes to None and is dropped; the call never panics on it.
C5_MismatchIsNone == \A r \in DeliveredRecs : Mismatch(r) => (Decode(r) = Ok(None) /\ result.kind # "panic")

\* a record tagged IPv4 with 4 bytes or IPv6 with 16 bytes, prefix in range
Valid(r) == HasFirstAddress(r) /\ ((r.family = AF_INET /\ Len(r.nlas[1].bytes) = 4 /\ r.prefix_len <= 32) \/ (r.family = AF_INET6 /\ Len(r.nlas[1].bytes) = 16 /\ r.prefix_len <= 128))

ExpectedNet(r) == [fam |-> IF r.family = AF_INET THEN "V4" ELSE "V6", net |-> [addr |-> r.nlas[1].bytes, prefix_len |-> r.prefix_len]]

\* C6: a valid IPv4 (IPv6) record decodes to the IPv4 (IPv6) network whose
\* octets are the payload and whose prefix length is the record's, and that
\* network is what the pipeline collects for it.
C6_ValidDecodes ==
    /\ \A r \in DeliveredRecs : Valid(r) => Decode(r) = Ok(Some(ExpectedNet(r)))
    /\ (pc = "addrs" /\ LastAddrItem.t = "item" /\ Valid(LastAddrItem.v)) => (collected # <<>> /\ collected[Len(collected)] = ExpectedNet(LastAddrItem.v))

C6_Witness == pc = "addrs" /\ CurItems = <<Item(RecV4a), Item(RecV6a)>> /\ collected = <<ExpectedNet(RecV4a), ExpectedNet(RecV6a)>>

\* C7: all_addresses() on a host whose link enumeration yields zero links
\* returns Ok with the empty sequence.
C7_EmptyHostOk == (pc = "done" /\ api = "all_addresses" /\ links = <<End>>) => result = Ok(<<>>)

C7_Witness == pc = "done" /\ api = "all_addresses" /\ host = <<>> /\ links = <<End>> /\ result.kind = "ok"

NetsOf(s, fam) == [i \in 1..Len(SelectSeq(s, LAMBDA n : n.fam = fam)) |-> SelectSeq(s, LAMBDA n : n.fam = fam)[i].net]

\* C8: the IPv4 (IPv6) projections return exactly the IPv4 (IPv6) entries of
\* what addresses / all_addresses returns, in the same relative order, and
\* the same error when that query fails.
C8_Projection == pc = "done" =>
    /\ (api \in {"ipv4_addresses", "all_ipv4_addresses"} /\ inner.kind = "ok") => result = Ok(NetsOf(inner.val, "V4"))
    /\ (api \in {"ipv6_addresses", "all_ipv6_addresses"} /\ inner.kind = "ok") => result = Ok(NetsOf(inner.val, "V6"))
    /\ inner.kind = "err" => result = inner
    /\ api \in {"addresses", "all_addresses"} => result = inner

C8_Witness == pc = "done" /\ api = "all_ipv4_addresses" /\ inner.kind = "ok" /\ Len(inner.val) = 3 /\ inner.val[2].fam = "V6" /\ Len(result.val) = 2 /\ result.val[1] # result.val[2]

\* C9: processing is strictly sequential: a link's address stream is drained
\* to its end before the next link record is pulled and before the next
\* address request is issued; at most one address stream is open.
C9_Sequential ==
    /\ Cardinality(open) <= 1
    /\ pc = "links" => open = {}
    /\ Len(addrs) = Pulled
    /\ \A i \in 1..(Len(addrs) - 1) : addrs[i].items # <<>> /\ addrs[i].items[Len(addrs[i].items)] = End
    /\ (pc = "links" /\ Len(addrs) > 0) => (CurItems # <<>> /\ CurItems[Len(CurItems)] = End)

C9_Witness == pc = "addrs" /\ Len(addrs) = 2 /\ Len(addrs[1].items) = 3 /\ Len(CurItems) = 1 /\ open = {2}

\* C10: only the first attribute of a record is looked at: a record whose
\* first attribute is not an address, or that has no attributes, is dropped
\* even if a valid address attribute follows, and the call goes on.
C10_FirstAttributeOnly ==
    /\ \A r \in DeliveredRecs : ~HasFirstAddress(r) => Decode(r) = Ok(None)
    /\ (LastAddrItem.t = "item" /\ ~HasFirstAddress(LastAddrItem.v)) => (pc = "addrs" /\ result = Pending)
    /\ pc = "addrs" => Len(collected) = Cardinality({j \in 1..Len(CurItems) : HasFirstAddress(CurItems[j].v)  /\ CurItems[j].v.family \in {AF_INET, AF_INET6}})

C10_Witness == pc = "done" /\ result = Ok(<<>>) /\ Len(addrs) = 1 /\ addrs[1].items = <<Item(RecLabelFirst), Item(RecNoNlas), End>>

====
